---- MODULE Spec2Model ----
(***************************************************************************)
(* Model of the batch-crawl orchestrator of src/bot.py (NovelBot) and of   *)
(* the chapter pipeline of scrape_logic_worker / FanMTLCrawler.            *)
(*                                                                         *)
(* Spec        the orchestrator: job store, queue file, the startup resume *)
(*             task, the upload handler, process_queue / process_novel,    *)
(*             delivery routing, process kill and restart.                 *)
(* SpecSingle  the orchestrator started on an empty data directory and     *)
(*             never killed: one process_queue coroutine at a time.        *)
(* FairSingle  SpecSingle with weak fairness of every task's steps.        *)
(* FairOwn     SpecSingle with weak fairness of every task's steps except  *)
(*             the answer of the relay's send_document call.               *)
(* SpecWorker  one worker run over the sites whose chapter list is on the  *)
(*             novel page, chapter fetches ending in any body.             *)
(* SpecResume  the startup over any data directory left by earlier runs,   *)
(*             followed by the resumed batch.                              *)
(* SpecNote    the messages of one process_novel call.                     *)
(* SpecProg    the progress events of one process_novel call.              *)
(* SpecToc     one worker run over every modelled site, all chapter        *)
(*             fetches succeeding.                                         *)
(* SpecBody    one worker run over single-page sites, chapter fetches      *)
(*             ending in any body.                                         *)
(***************************************************************************)
EXTENDS Integers, Sequences, FiniteSets, TLC

VARIABLES
    up,          \* the process is running and post_init has completed
    processed,   \* NovelBot.processed
    errors,      \* keys of NovelBot.errors
    nullcon,     \* NovelBot.nullcon
    genfail,     \* NovelBot.genfail
    fProcessed,  \* contents of processed_<bot>.json
    fErrors,     \* contents of errors_<bot>.json
    fNullcon,    \* contents of nullcon_<bot>.json
    fGenfail,    \* contents of genfail_<bot>.json
    fQueue,      \* queue_<bot>.json: NoFile, or QueueFile(urls) with the list it holds
    epubs,       \* urls whose bound artifact file exists on disk
    userbot,     \* NovelBot.userbot is set (relay connected)
    target,      \* dest_chat_id and dest_topic_id are both set
    task,        \* the two coroutines that can run process_queue
    kills,       \* number of times the process was killed
    uploads,     \* number of JSON lists uploaded
    killedInFlight, \* history: urls in flight when the process was killed, until restart
    \* --- one run of scrape_logic_worker ---
    site,        \* the remote novel: what its pages hold and how its fetches end
    wpc,         \* position of the worker
    pending,     \* TOC page futures submitted and not yet resolved
    crawled,     \* FanMTLCrawler.chapters
    chapters,    \* App.chapters
    repairs,     \* number of download_chapters(failed) calls made
    repaired,    \* ids passed to the last download_chapters(failed) call
    \* --- the messages of one process_novel call ---
    npc,         \* position of the call
    logOk,       \* ERROR_GROUP_ID and error_topic_id are both set
    statusMsg,   \* status_msg: "none" (None), "live" or "deleted"
    progMsg,     \* prog_msg: "none" (None), "live" or "deleted"
    logReq,      \* the send_log call being awaited
    notes,       \* messages delivered that report the outcome of the job
    \* --- the progress events of one process_novel call ---
    lpc,         \* position of the supervising loop
    emitted,     \* events the worker has put on progress_queue, in order
    pq,          \* progress_queue: events put and not yet read
    fdone,       \* future.done()
    lastText,    \* last_text
    since,       \* sleeps of the loop since last_update
    forwarded    \* events passed to send_log as edits of the status message

coreVars == <<up, processed, errors, nullcon, genfail, fProcessed, fErrors,
              fNullcon, fGenfail, fQueue, epubs, userbot, target, task, kills, uploads,
              killedInFlight>>

noteVars == <<npc, logOk, statusMsg, progMsg, logReq, notes>>

progVars == <<lpc, emitted, pq, fdone, lastText, since, forwarded>>

orchVars == <<coreVars, noteVars, progVars>>

workVars == <<site, wpc, pending, crawled, chapters, repairs, repaired>>

vars == <<orchVars, workVars>>

\* Groups of variables the actions leave alone.
memVars == <<processed, errors, nullcon, genfail>>
fileVars == <<fProcessed, fErrors, fNullcon, fGenfail>>
confVars == <<up, userbot, target>>
restVars == <<kills, uploads, killedInFlight, workVars, noteVars, progVars>>

----
\* Bounds of the model.
NumUrls == 2
MaxBatch == 2
MaxKills == 1
MaxUploads == 1
MaxPageParam == 1
MaxLinks == 2
MaxChapters == 3
MaxPct == 2
MaxCount == 10

\* Program constants.
USERBOT_THRESHOLD == 40
BOT_LIMIT == 50
MiB == 1048576
MIN_BODY == 20
THROTTLE_S == 5
SLEEPS_PER_S == 2

Urls == 1..NumUrls
NoFile == <<>>
QueueFile(urls) == <<urls>>
Tasks == {"resume", "upload"}

RECURSIVE SeqsUpTo(_)
SeqsUpTo(n) ==
    IF n = 0 THEN {<<>>}
    ELSE LET S == SeqsUpTo(n - 1)
         IN S \cup {Append(s, u) : s \in {x \in S : Len(x) = n - 1}, u \in Urls}

\* The uploaded JSON lists.
Batches == SeqsUpTo(MaxBatch)

\* Artifact sizes in bytes around the two limits of process_novel.
Sizes == {USERBOT_THRESHOLD * MiB - 1, USERBOT_THRESHOLD * MiB, USERBOT_THRESHOLD * MiB + 1,
          BOT_LIMIT * MiB - 1, BOT_LIMIT * MiB}

Range(s) == {s[k] : k \in 1..Len(s)}

Min(S) == CHOOSE x \in S : \A y \in S : x <= y

\* A coroutine running process_queue: its position, its url list (to_process once
\* filtered), the loop index, the worker's result, whether prog_msg is a message,
\* and the artifact size.
IdleTask == [pc |-> "idle", todo |-> <<>>, i |-> 0, res |-> "none", prog |-> FALSE,
             size |-> 0]

\* A pool of a single worker process.
PoolSize_Mutant == Cardinality({"worker"})

\* ProcessPoolExecutor(max_workers=2)
PoolSize == 2

\* The url a task's process_novel call is about.
Cur(t) == task[t].todo[task[t].i]

\* pcs between run_in_executor and the worker's result being collected.
WorkerPcs == {"poll", "done"}
\* pcs of the success branch of process_novel, after the bind produced a file.
DeliveryPcs == {"statusdel", "relaylog", "relay", "progdel", "sentfaillog",
                "relayfaillog", "toobiglog", "primary"}
\* pcs in which a process_novel call is in progress for Cur(t).
NovelPcs == {"pnlog", "novellog"} \cup WorkerPcs \cup DeliveryPcs

\* An attempt (worker run, then delivery) is in flight for url u in task t.
InFlight(t, u) ==
    /\ task[t].pc \in WorkerPcs \cup DeliveryPcs
    /\ Cur(t) = u

----
\* The filter of post_init and process_queue without its genfail condition.
ToProcess_Mutant(urls, proc, nc, gf) ==
    SelectSeq(urls, LAMBDA u : u \notin proc /\ u \notin nc)

\* to_process of post_init and process_queue: the urls not in a skip set, in order.
ToProcess(urls, proc, nc, gf) ==
    SelectSeq(urls, LAMBDA u : u \notin proc /\ u \notin nc /\ u \notin gf)

\* The for loop of process_queue taking the last job left instead of the next one.
Advance_Reversed(tk, proc) ==
    LET cand == {j \in (tk.i + 1)..Len(tk.todo) : tk.todo[j] \notin proc}
    IN IF cand = {}
       THEN [tk EXCEPT !.pc = "finlog", !.i = 0, !.res = "none", !.prog = FALSE, !.size = 0]
       ELSE [tk EXCEPT !.pc = "pnlog",
                       !.i = CHOOSE x \in cand : \A y \in cand : x >= y,
                       !.res = "none", !.prog = FALSE, !.size = 0]

\* The for loop of process_queue leaving the loop after a job that failed.
Advance_Mutant(tk, proc) ==
    LET cand == {j \in (tk.i + 1)..Len(tk.todo) : tk.todo[j] \notin proc}
    IN IF cand = {} \/ (tk.i > 0 /\ tk.todo[tk.i] \notin proc)
       THEN [tk EXCEPT !.pc = "finlog", !.i = 0, !.res = "none", !.prog = FALSE, !.size = 0]
       ELSE [tk EXCEPT !.pc = "pnlog", !.i = Min(cand), !.res = "none", !.prog = FALSE,
                       !.size = 0]

\* The for loop of process_queue from position tk.i + 1: skip the urls that are
\* already processed, enter process_novel (its first send_log) for the next
\* one, or leave the loop for the final send_log.
Advance(tk, proc) ==
    LET cand == {j \in (tk.i + 1)..Len(tk.todo) : tk.todo[j] \notin proc}
    IN IF cand = {}
       THEN [tk EXCEPT !.pc = "finlog", !.i = 0, !.res = "none", !.prog = FALSE, !.size = 0]
       ELSE [tk EXCEPT !.pc = "pnlog", !.i = Min(cand), !.res = "none", !.prog = FALSE,
                       !.size = 0]

\* No supervising loop is followed event by event.
ProgOff ==
    /\ lpc = "off"
    /\ emitted = <<>>
    /\ pq = <<>>
    /\ fdone = FALSE
    /\ lastText = [kind |-> "none", k |-> 0]
    /\ since = 0
    /\ forwarded = {}

\* No process_novel call is followed message by message.
NoteOff ==
    /\ npc = "off"
    /\ logOk = FALSE
    /\ statusMsg = "none"
    /\ progMsg = "none"
    /\ logReq = [how |-> "none", text |-> "none"]
    /\ notes = <<>>

\* The orchestrator at process start, before post_init: NovelBot.__init__ ran; the
\* data directory holds no state files, except that queue_<bot>.json may be left
\* from a run that was interrupted right after an upload.
OrchInit ==
    /\ up = FALSE
    /\ processed = {} /\ errors = {} /\ nullcon = {} /\ genfail = {}
    /\ fProcessed = {} /\ fErrors = {} /\ fNullcon = {} /\ fGenfail = {}
    /\ fQueue \in {NoFile} \cup {QueueFile(b) : b \in Batches}
    /\ epubs = {}
    /\ userbot = FALSE /\ target = FALSE
    /\ task = [t \in Tasks |-> IdleTask]
    /\ kills = 0
    /\ uploads = 0
    /\ killedInFlight = {}
    /\ NoteOff

----
(***************************************************************************)
(* One run of scrape_logic_worker: FanMTLCrawler.read_novel_info, the      *)
(* chapter download, the repair round and the bind.                        *)
(***************************************************************************)

\* Values of the "page" parameter of the last pagination link: absent, empty,
\* a text with a character that str.isdigit() rejects ("malformed": "-1", "x",
\* "1.5"), the decimal number n ("digits"), or a text of characters that
\* str.isdigit() accepts and int() rejects ("nonint": superscript digits).
NoParam == [kind |-> "absent", n |-> 0]
PageParams ==
    {[kind |-> k, n |-> 0] : k \in {"absent", "empty", "malformed", "nonint"}}
        \cup {[kind |-> "digits", n |-> n] : n \in 0..MaxPageParam}

\* page_param and str(page_param).isdigit()
IsDigit(param) == param.kind \in {"digits", "nonint"}

\* int(page_param) raises ValueError.
IntRaises(param) == param.kind = "nonint"

\* The page count taking the number of the last page for the number of pages.
PageCount_Mutant(param) ==
    IF IsDigit(param) THEN param.n ELSE 1

\* int(page_param) + 1 if the test holds, else 1 (for a parameter int() takes).
PageCount(param) ==
    IF IsDigit(param) THEN param.n + 1 ELSE 1

\* The text of the header stats of the novel page: the element is absent, or it
\* reads "No Chapters", or it reads "<n> Chapters" for the chapter count n.
NoStats == -2
NoChaptersText == -1
StatsTexts == {NoStats, NoChaptersText} \cup 0..MaxCount

\* "no chapters" in stats_text or "0 chapters" in stats_text: the second test
\* is a substring test, met by every count whose last decimal digit is 0.
StatsZero(st) == st = NoChaptersText \/ (st >= 0 /\ st % 10 = 0)

\* is_zero_chapter: check A on the read button, check B on the header stats.
IsZeroChapter(s) == s.button \/ StatsZero(s.stats)

\* A site: how the metadata fetch ends, whether the read button says "no
\* chapter", the header stats, whether the page source holds the text "no
\* chapter", the pagination link, and the number of well-formed chapter links
\* on the novel page and on each TOC page.
AllSites ==
    [meta : {"ok", "unreachable", "blocked", "notitle"},
     button : BOOLEAN,
     stats : StatsTexts,
     marker : BOOLEAN,
     pag : {"none", "nohref", "href"},
     param : PageParams,
     main : 0..MaxLinks,
     page : [0..MaxPageParam -> 0..MaxLinks]]

\* Fields that the code never reads for a site are held at one value; the
\* button text and the "No Chapters" stats are part of the page source.
Canonical(s) ==
    /\ s.meta # "ok" => ~s.button /\ s.stats = NoStats /\ ~s.marker /\ s.pag = "none"
    /\ (s.button \/ s.stats = NoChaptersText) => s.marker
    /\ (IsZeroChapter(s) /\ ~s.button /\ s.stats # NoChaptersText) => ~s.marker
    /\ IsZeroChapter(s) => s.pag = "none"
    /\ s.pag # "href" => s.param = NoParam /\ \A p \in 0..MaxPageParam : s.page[p] = 0
    /\ s.pag = "href" =>
          \A p \in 0..MaxPageParam :
             (IntRaises(s.param) \/ p >= PageCount(s.param)) => s.page[p] = 0
    /\ (s.meta # "ok" \/ s.button \/ s.stats \in {NoChaptersText, 0}) => s.main = 0

Sites == {s \in AllSites : Canonical(s)}

\* Sites without pagination whose novel page lists up to MaxChapters chapters.
SinglePageSites ==
    {[meta |-> "ok", button |-> FALSE, stats |-> NoStats, marker |-> FALSE, pag |-> "none", param |-> NoParam,
      main |-> n, page |-> [p \in 0..MaxPageParam |-> 0]] : n \in 1..MaxChapters}

NoSite == [meta |-> "unreachable", button |-> FALSE, stats |-> NoStats, marker |-> FALSE, pag |-> "none",
           param |-> NoParam, main |-> 0, page |-> [p \in 0..MaxPageParam |-> 0]]

\* The novel page itself, as the page a chapter link was parsed from.
MainPage == -1

\* Chapter bodies: None (-1), or the length of the stripped text.
NoBody == -1
BodyLens == {NoBody, 0, MIN_BODY - 1, MIN_BODY}
GoodLens == {MIN_BODY}

\* Number of decimal digits of a chapter id.
Digits(n) == IF n < 10 THEN 1 ELSE IF n < 100 THEN 2 ELSE 3

\* len(f"<h1>Chapter {c.id}</h1><p><i>[Content Missing]</i></p>".strip())
PlaceholderLen(id) == 12 + Digits(id) + 36

\* not c.body or len(c.body.strip()) < 20
Degraded(c) == c.body = NoBody \/ c.body = 0 \/ c.body < MIN_BODY

\* parse_chapter_list numbering the chapters of each page from 1.
RECURSIVE ParseChapterList_Mutant(_, _, _)
ParseChapterList_Mutant(chs, pg, n) ==
    IF n = 0 THEN chs
    ELSE Append(ParseChapterList_Mutant(chs, pg, n - 1),
                [id |-> n, src |-> <<pg, n>>, body |-> NoBody])

\* parse_chapter_list: one Chapter per link of the page, with id len(self.chapters) + 1.
RECURSIVE ParseChapterList(_, _, _)
ParseChapterList(chs, pg, n) ==
    IF n = 0 THEN chs
    ELSE LET prev == ParseChapterList(chs, pg, n - 1)
         IN Append(prev, [id |-> Len(prev) + 1, src |-> <<pg, n>>, body |-> NoBody])

\* list.sort(key=id): a stable insertion sort.
RECURSIVE InsertById(_, _)
InsertById(sorted, c) ==
    IF sorted = <<>> THEN <<c>>
    ELSE IF sorted[Len(sorted)].id <= c.id THEN Append(sorted, c)
    ELSE Append(InsertById(SubSeq(sorted, 1, Len(sorted) - 1), c), sorted[Len(sorted)])

RECURSIVE SortById(_)
SortById(chs) ==
    IF chs = <<>> THEN <<>>
    ELSE InsertById(SortById(SubSeq(chs, 1, Len(chs) - 1)), chs[Len(chs)])

WorkOff ==
    /\ site = NoSite
    /\ wpc = "off"
    /\ pending = {}
    /\ crawled = <<>>
    /\ chapters = <<>>
    /\ repairs = 0
    /\ repaired = {}

WorkInit(S) ==
    /\ site \in S
    /\ wpc = "start"
    /\ pending = {}
    /\ crawled = <<>>
    /\ chapters = <<>>
    /\ repairs = 0
    /\ repaired = {}

\* read_novel_info up to the TOC: the metadata fetch, the block and title checks,
\* the zero-chapter check, and either the page fetches being submitted or the
\* novel page being parsed (no pagination link, a link without href, or the
\* except branch after int() raised).
ReadInfo ==
    /\ wpc = "start"
    /\ IF site.meta = "unreachable" THEN wpc' = "raised_fetch" /\ UNCHANGED <<pending, crawled>>
       ELSE IF site.meta = "blocked" THEN wpc' = "raised_block" /\ UNCHANGED <<pending, crawled>>
       ELSE IF site.meta = "notitle" THEN wpc' = "raised_title" /\ UNCHANGED <<pending, crawled>>
       ELSE IF IsZeroChapter(site) THEN wpc' = "loaded" /\ UNCHANGED <<pending, crawled>>
       ELSE IF site.pag = "href" /\ ~IntRaises(site.param)
            THEN /\ pending' = 0..(PageCount(site.param) - 1)
                 /\ wpc' = "toc"
                 /\ crawled' = <<>>
            ELSE /\ crawled' = ParseChapterList(<<>>, MainPage, site.main)
                 /\ wpc' = "sort"
                 /\ pending' = {}
    /\ UNCHANGED <<site, chapters, repairs, repaired, orchVars>>

\* resolve_futures hands over the next TOC page: it is parsed; or the fetch gave
\* nothing and the page is skipped; or the error surfaces and the except branch
\* parses the novel page instead.
TocPage(p, out) ==
    /\ wpc = "toc"
    /\ p \in pending
    /\ CASE out = "ok" ->
              /\ crawled' = ParseChapterList(crawled, p, site.page[p])
              /\ pending' = pending \ {p}
              /\ wpc' = IF pending' = {} THEN "sort" ELSE "toc"
         [] out = "none" ->
              /\ crawled' = crawled
              /\ pending' = pending \ {p}
              /\ wpc' = IF pending' = {} THEN "sort" ELSE "toc"
         [] out = "raise" ->
              /\ crawled' = ParseChapterList(crawled, MainPage, site.main)
              /\ pending' = {}
              /\ wpc' = "sort"
    /\ UNCHANGED <<site, chapters, repairs, repaired, orchVars>>

\* The sort by id and the final verification of read_novel_info.
SortAndVerify ==
    /\ wpc = "sort"
    /\ crawled' = SortById(crawled)
    /\ wpc' = IF crawled # <<>> \/ site.marker THEN "loaded" ELSE "raised_parse"
    /\ UNCHANGED <<site, pending, chapters, repairs, repaired, orchVars>>

\* The copy of the chapter list without the "No chapters extracted" check.
CopyChapters_Mutant ==
    /\ wpc = "loaded"
    /\ chapters' = crawled
    /\ wpc' = "download"
    /\ UNCHANGED <<site, pending, crawled, repairs, repaired, orchVars>>

\* app.chapters = app.crawler.chapters[:] and the "No chapters extracted" check.
CopyChapters ==
    /\ wpc = "loaded"
    /\ chapters' = crawled
    /\ wpc' = IF crawled = <<>> THEN "raised_nochapters" ELSE "download"
    /\ UNCHANGED <<site, pending, crawled, repairs, repaired, orchVars>>

\* app.start_download(): every chapter is fetched once; each fetch ends with a
\* body drawn from B.
StartDownload(B) ==
    /\ wpc = "download"
    /\ \E f \in [1..Len(chapters) -> B] :
          chapters' = [k \in 1..Len(chapters) |-> [chapters[k] EXCEPT !.body = f[k]]]
    /\ wpc' = "check"
    /\ UNCHANGED <<site, pending, crawled, repairs, repaired, orchVars>>

\* failed = [c for c in app.chapters if not c.body or len(c.body.strip()) < 20]
Failed(chs) == {k \in 1..Len(chs) : Degraded(chs[k])}

\* The repair round leaving the chapters that are still degraded as they are.
Repair_Mutant(B) ==
    /\ wpc = "check"
    /\ LET failed == Failed(chapters)
       IN IF failed = {}
          THEN UNCHANGED <<chapters, repairs, repaired>>
          ELSE /\ repairs' = repairs + 1
               /\ repaired' = {chapters[k].id : k \in failed}
               /\ \E f \in [failed -> B] :
                     chapters' = [k \in 1..Len(chapters) |->
                                     IF k \in failed
                                     THEN [chapters[k] EXCEPT !.body = f[k]]
                                     ELSE chapters[k]]
    /\ wpc' = "bind"
    /\ UNCHANGED <<site, pending, crawled, orchVars>>

\* The one repair round: download_chapters(failed) fetches the degraded chapters
\* again, each fetch ending with a body drawn from B; the chapters still
\* degraded get the placeholder body.
Repair(B) ==
    /\ wpc = "check"
    /\ LET failed == Failed(chapters)
       IN IF failed = {}
          THEN UNCHANGED <<chapters, repairs, repaired>>
          ELSE /\ repairs' = repairs + 1
               /\ repaired' = {chapters[k].id : k \in failed}
               /\ \E f \in [failed -> B] :
                     LET again == [k \in 1..Len(chapters) |->
                                      IF k \in failed
                                      THEN [chapters[k] EXCEPT !.body = f[k]]
                                      ELSE chapters[k]]
                     IN chapters' = [k \in 1..Len(chapters) |->
                                        IF Degraded(again[k])
                                        THEN [again[k] EXCEPT !.body = PlaceholderLen(again[k].id)]
                                        ELSE again[k]]
    /\ wpc' = "bind"
    /\ UNCHANGED <<site, pending, crawled, orchVars>>

\* app.bind_books(): the first bound file is returned, or nothing is bound, or
\* the bind raises IndexError.
Bind(out) ==
    /\ wpc = "bind"
    /\ wpc' = out
    /\ UNCHANGED <<site, pending, crawled, chapters, repairs, repaired, orchVars>>

BindResults == {"returned_file", "returned_none", "raised_index"}

\* The chapters that carry the placeholder body.
Placeholders(chs) == {k \in 1..Len(chs) : chs[k].body = PlaceholderLen(chs[k].id)}

\* What scrape_logic_worker hands back when the bind gave a file: the path f.
WorkerReturn(w, chs) == [path |-> w = "returned_file"]

\* The caption of the delivered document: the file name, the size and the
\* duration of the job.
Caption(ret, sz, dur) == [name |-> ret.path, size |-> sz, duration |-> dur]

\* The ways a worker run ends before the bind.
RaisedEarly == {"raised_fetch", "raised_block", "raised_title", "raised_parse",
                "raised_nochapters"}

\* What process_novel makes of the end of the worker run: a file path, no
\* path, an error whose text holds one of the null-content patterns ("No
\* chapters extracted", "IndexError during binding"), or another error
\* ("Cloudflare Blocked Request", "Failed to parse novel title ...", "Parsing
\* Error: Chapter list empty ...", the error of the failed request).
Outcome(w) ==
    CASE w = "returned_file" -> "file"
      [] w = "returned_none" -> "nofile"
      [] w \in {"raised_nochapters", "raised_index"} -> "nullerr"
      [] OTHER -> "othererr"

Init == OrchInit /\ WorkOff /\ ProgOff

----

\* post_init at process start: load_data, connect the userbot, then resume the
\* persisted queue (create_task(process_queue(to_process))) or clear it.
PostInit ==
    /\ ~up
    /\ up' = TRUE
    /\ processed' = fProcessed
    /\ errors' = fErrors
    /\ nullcon' = fNullcon
    /\ genfail' = fGenfail
    /\ userbot' \in BOOLEAN
    /\ target' \in BOOLEAN
    /\ LET urls == IF fQueue = NoFile THEN <<>> ELSE fQueue[1]
           tp == ToProcess(urls, fProcessed, fNullcon, fGenfail)
       IN IF tp # <<>>
          THEN /\ task' = [task EXCEPT !["resume"] =
                              [IdleTask EXCEPT !.pc = "start", !.todo = tp]]
               /\ fQueue' = fQueue
          ELSE /\ task' = task
               /\ fQueue' = IF urls # <<>> THEN NoFile ELSE fQueue
    /\ killedInFlight' = {}
    /\ UNCHANGED <<fileVars, epubs, kills, uploads, workVars, noteVars,
                 progVars>>

\* The process is terminated: memory and coroutines are gone, files stay.
Kill ==
    /\ up
    /\ kills < MaxKills
    /\ kills' = kills + 1
    /\ up' = FALSE
    /\ processed' = {} /\ errors' = {} /\ nullcon' = {} /\ genfail' = {}
    /\ userbot' = FALSE /\ target' = FALSE
    /\ task' = [t \in Tasks |-> IdleTask]
    /\ killedInFlight' = {u \in Urls : \E t \in Tasks : InFlight(t, u)}
                            \ (processed \cup nullcon \cup genfail)
    /\ UNCHANGED <<fileVars, fQueue, epubs, uploads, workVars, noteVars,
                 progVars>>

\* handle_json_file up to its call of process_queue: the uploaded list replaces
\* the queue file. Updates are handled one at a time, so a second upload waits
\* for the first handler to return.
HandleJson(b) ==
    /\ up
    /\ task["upload"].pc = "idle"
    /\ uploads < MaxUploads
    /\ uploads' = uploads + 1
    /\ fQueue' = QueueFile(b)
    /\ task' = [task EXCEPT !["upload"] = [IdleTask EXCEPT !.pc = "start", !.todo = b]]
    /\ UNCHANGED <<memVars, fileVars, confVars, epubs, kills, killedInFlight, workVars, noteVars,
                 progVars>>

\* The count handle_json_file reports to the sender: len(urls).
ReplyCount(urls) == Len(urls)

\* process_queue from its entry to its first await: the filter, and either the
\* early return (queue file removed) or the "Starting Batch" log.
StartQueue(t) ==
    /\ task[t].pc = "start"
    /\ LET tp == ToProcess(task[t].todo, processed, nullcon, genfail)
       IN IF tp = <<>>
          THEN /\ fQueue' = NoFile
               /\ task' = [task EXCEPT ![t] = IdleTask]
          ELSE /\ fQueue' = fQueue
               /\ task' = [task EXCEPT ![t] = [IdleTask EXCEPT !.pc = "batchlog", !.todo = tp]]
    /\ UNCHANGED <<memVars, fileVars, confVars, epubs, restVars>>

\* A send_log await of the loop returns ("Starting Batch", or the last log of a
\* process_novel call that ends in a failure branch): the for loop goes on.
LoopStep(t) ==
    /\ task[t].pc \in {"batchlog", "novellog"}
    /\ task' = [task EXCEPT ![t] = Advance(task[t], processed)]
    /\ UNCHANGED <<memVars, fileVars, confVars, fQueue, epubs, restVars>>

\* The "All Tasks Finished" log returns: the queue file is removed.
Finish(t) ==
    /\ task[t].pc = "finlog"
    /\ fQueue' = NoFile
    /\ task' = [task EXCEPT ![t] = IdleTask]
    /\ UNCHANGED <<memVars, fileVars, confVars, epubs, restVars>>

\* process_novel after its "Processing" log: run_in_executor hands the url to the pool.
Dispatch(t) ==
    /\ task[t].pc = "pnlog"
    /\ task' = [task EXCEPT ![t].pc = "poll"]
    /\ UNCHANGED <<memVars, fileVars, confVars, fQueue, epubs, restVars>>

WorkerResults == {"file", "nofile", "nullerr", "othererr"}

\* scrape_logic_worker ends in the pool: it returns the bound file, returns no
\* file, raises an error of the null-content kind, or raises another error.
WorkerDone(t, r) ==
    /\ task[t].pc = "poll"
    /\ task' = [task EXCEPT ![t].pc = "done", ![t].res = r]
    /\ epubs' = IF r = "file" THEN epubs \cup {Cur(t)} ELSE epubs
    /\ UNCHANGED <<memVars, fileVars, confVars, fQueue, restVars>>

\* process_novel after the polling loop: await future, then the branch on the result.
Collect(t) ==
    /\ task[t].pc = "done"
    /\ LET u == Cur(t)
           r == task[t].res
       IN \/ /\ r = "file" /\ u \in epubs
             /\ \E sz \in Sizes :
                   task' = [task EXCEPT ![t].pc = "statusdel", ![t].res = "none",
                                           ![t].size = sz]
             /\ UNCHANGED <<nullcon, genfail, fNullcon, fGenfail>>
          \/ /\ r = "nofile" \/ (r = "file" /\ u \notin epubs)
             /\ genfail' = genfail \cup {u}
             /\ fGenfail' = genfail'
             /\ task' = [task EXCEPT ![t].pc = "novellog", ![t].res = "none"]
             /\ UNCHANGED <<nullcon, fNullcon>>
          \/ /\ r = "nullerr"
             /\ nullcon' = nullcon \cup {u}
             /\ fNullcon' = nullcon'
             /\ task' = [task EXCEPT ![t].pc = "novellog", ![t].res = "none"]
             /\ UNCHANGED <<genfail, fGenfail>>
          \/ /\ r = "othererr"
             /\ task' = [task EXCEPT ![t].pc = "novellog", ![t].res = "none"]
             /\ UNCHANGED <<nullcon, genfail, fNullcon, fGenfail>>
    /\ UNCHANGED <<processed, errors, fProcessed, fErrors, confVars, fQueue, epubs, restVars>>

\* The delivery decision with the relay preferred from the threshold on.
RouteOf_Mutant(sz, ub, tg) ==
    IF ~tg THEN "config"
    ELSE IF sz >= USERBOT_THRESHOLD * MiB /\ ub THEN "relay"
    ELSE IF sz >= BOT_LIMIT * MiB THEN "toobig"
    ELSE "primary"

\* The delivery decision of process_novel for an artifact of sz bytes.
RouteOf(sz, ub, tg) ==
    IF ~tg THEN "config"
    ELSE IF sz > USERBOT_THRESHOLD * MiB /\ ub THEN "relay"
    ELSE IF sz >= BOT_LIMIT * MiB THEN "toobig"
    ELSE "primary"

\* process_novel after status_msg.delete(): the routing, up to the next await.
Route(t) ==
    /\ task[t].pc = "statusdel"
    /\ LET r == RouteOf(task[t].size, userbot, target)
       IN task' = [task EXCEPT ![t].pc =
                      CASE r = "config" -> "novellog"
                        [] r = "relay" -> "relaylog"
                        [] r = "toobig" -> "toobiglog"
                        [] OTHER -> IF Cur(t) \in epubs THEN "primary" ELSE "novellog",
                                   ![t].size = IF r = "config" \/ (r = "primary" /\ Cur(t) \notin epubs)
                                               THEN 0 ELSE task[t].size]
    /\ UNCHANGED <<memVars, fileVars, confVars, fQueue, epubs, restVars>>

\* os.remove(epub_path) and the return to the for loop; a missing file raises
\* into the except branch, which logs the error.
Remove(t, proc) ==
    IF Cur(t) \in epubs
    THEN /\ epubs' = epubs \ {Cur(t)}
         /\ task' = [task EXCEPT ![t] = Advance(task[t], proc)]
    ELSE /\ epubs' = epubs
         /\ task' = [task EXCEPT ![t].pc = "novellog", ![t].prog = FALSE, ![t].size = 0]

\* save_success: memory, then the processed, nullcon and genfail files.
SaveSuccess(u) ==
    /\ processed' = processed \cup {u}
    /\ errors' = errors \ {u}
    /\ nullcon' = nullcon \ {u}
    /\ genfail' = genfail \ {u}
    /\ fProcessed' = processed'
    /\ fNullcon' = nullcon'
    /\ fGenfail' = genfail'
    /\ fErrors' = fErrors

\* The "Uploading via Userbot" log returns: prog_msg is a message or None.
RelayLogged(t) ==
    /\ task[t].pc = "relaylog"
    /\ \E p \in BOOLEAN : task' = [task EXCEPT ![t].pc = "relay", ![t].prog = p]
    /\ UNCHANGED <<memVars, fileVars, confVars, fQueue, epubs, restVars>>

\* userbot.send_document returns or raises.
RelaySent(t, ok) ==
    /\ task[t].pc = "relay"
    /\ ok => Cur(t) \in epubs
    /\ task' = [task EXCEPT ![t].prog = FALSE,
                            ![t].pc = IF ~ok THEN "relayfaillog"
                                      ELSE IF task[t].prog THEN "progdel"
                                      ELSE "sentfaillog"]
    /\ UNCHANGED <<memVars, fileVars, confVars, fQueue, epubs, restVars>>

\* prog_msg.delete() returns (save_success, os.remove) or raises.
ProgDeleted(t, ok) ==
    /\ task[t].pc = "progdel"
    /\ IF ok
       THEN /\ SaveSuccess(Cur(t))
            /\ Remove(t, processed')
       ELSE /\ task' = [task EXCEPT ![t].pc = "sentfaillog"]
            /\ UNCHANGED <<memVars, fileVars, epubs>>
    /\ UNCHANGED <<confVars, fQueue, restVars>>

\* The "Userbot Upload Failed" log returns: os.remove. The log is sent when
\* send_document raised ("relayfaillog") and when it succeeded but the call
\* prog_msg.delete() after it raised ("sentfaillog").
RelayFailLogged(t) ==
    /\ task[t].pc \in {"relayfaillog", "sentfaillog"}
    /\ Remove(t, processed)
    /\ UNCHANGED <<memVars, fileVars, confVars, fQueue, restVars>>

\* The "exceeds 50MB limit" log returns: save_error, os.remove.
TooBigLogged(t) ==
    /\ task[t].pc = "toobiglog"
    /\ errors' = errors \cup {Cur(t)}
    /\ fErrors' = errors'
    /\ Remove(t, processed)
    /\ UNCHANGED <<processed, nullcon, genfail, fProcessed, fNullcon, fGenfail, confVars,
                   fQueue, restVars>>

\* bot.send_document returns (save_success, os.remove) or raises.
PrimarySent(t, ok) ==
    /\ task[t].pc = "primary"
    /\ IF ok
       THEN /\ SaveSuccess(Cur(t))
            /\ Remove(t, processed')
       ELSE /\ task' = [task EXCEPT ![t].pc = "novellog", ![t].size = 0]
            /\ UNCHANGED <<memVars, fileVars, epubs>>
    /\ UNCHANGED <<confVars, fQueue, restVars>>

Next ==
    \/ PostInit
    \/ Kill
    \/ \E b \in Batches : HandleJson(b)
    \/ \E t \in Tasks : StartQueue(t)
    \/ \E t \in Tasks : LoopStep(t)
    \/ \E t \in Tasks : Finish(t)
    \/ \E t \in Tasks : Dispatch(t)
    \/ \E t \in Tasks, r \in WorkerResults : WorkerDone(t, r)
    \/ \E t \in Tasks : Collect(t)
    \/ \E t \in Tasks : Route(t)
    \/ \E t \in Tasks : RelayLogged(t)
    \/ \E t \in Tasks, ok \in BOOLEAN : RelaySent(t, ok)
    \/ \E t \in Tasks, ok \in BOOLEAN : ProgDeleted(t, ok)
    \/ \E t \in Tasks : RelayFailLogged(t)
    \/ \E t \in Tasks : TooBigLogged(t)
    \/ \E t \in Tasks, ok \in BOOLEAN : PrimarySent(t, ok)

Spec == Init /\ [][Next]_vars

\* The orchestrator on an empty data directory, never killed.
InitSingle == OrchInit /\ fQueue = NoFile /\ WorkOff /\ ProgOff

NextSingle ==
    \/ PostInit
    \/ \E b \in Batches : HandleJson(b)
    \/ \E t \in Tasks : StartQueue(t)
    \/ \E t \in Tasks : LoopStep(t)
    \/ \E t \in Tasks : Finish(t)
    \/ \E t \in Tasks : Dispatch(t)
    \/ \E t \in Tasks, r \in WorkerResults : WorkerDone(t, r)
    \/ \E t \in Tasks : Collect(t)
    \/ \E t \in Tasks : Route(t)
    \/ \E t \in Tasks : RelayLogged(t)
    \/ \E t \in Tasks, ok \in BOOLEAN : RelaySent(t, ok)
    \/ \E t \in Tasks, ok \in BOOLEAN : ProgDeleted(t, ok)
    \/ \E t \in Tasks : RelayFailLogged(t)
    \/ \E t \in Tasks : TooBigLogged(t)
    \/ \E t \in Tasks, ok \in BOOLEAN : PrimarySent(t, ok)

SpecSingle == InitSingle /\ [][NextSingle]_vars

\* One step of task t. The asyncio event loop resumes every task whose awaited
\* call has returned; every Telegram call and every worker run returns or raises.
TaskStep(t) ==
    \/ StartQueue(t)
    \/ LoopStep(t)
    \/ Finish(t)
    \/ Dispatch(t)
    \/ \E r \in WorkerResults : WorkerDone(t, r)
    \/ Collect(t)
    \/ Route(t)
    \/ RelayLogged(t)
    \/ \E ok \in BOOLEAN : RelaySent(t, ok)
    \/ \E ok \in BOOLEAN : ProgDeleted(t, ok)
    \/ RelayFailLogged(t)
    \/ TooBigLogged(t)
    \/ \E ok \in BOOLEAN : PrimarySent(t, ok)

FairSingle == SpecSingle /\ \A t \in Tasks : WF_vars(TaskStep(t))

\* The relay's answer to userbot.send_document is the one step that is not
\* the program's own: the userbot client returns when Telegram confirms the
\* upload, and the call is awaited without a timeout.
OwnStep(t) == task[t].pc # "relay" /\ TaskStep(t)

FairOwn == SpecSingle /\ \A t \in Tasks : WF_vars(OwnStep(t))

\* One worker run.
OrchQuiet == OrchInit /\ fQueue = NoFile

WorkerNext(B) ==
    \/ ReadInfo
    \/ \E p \in 0..MaxPageParam, out \in {"ok", "none", "raise"} : TocPage(p, out)
    \/ SortAndVerify
    \/ CopyChapters
    \/ StartDownload(B)
    \/ Repair(B)
    \/ \E out \in BindResults : Bind(out)

InitToc == OrchQuiet /\ WorkInit(Sites) /\ ProgOff
NextToc == WorkerNext(GoodLens)
SpecToc == InitToc /\ [][NextToc]_vars

InitBody == OrchQuiet /\ WorkInit(SinglePageSites) /\ ProgOff

NextBody ==
    \/ ReadInfo
    \/ SortAndVerify
    \/ CopyChapters
    \/ StartDownload(BodyLens)
    \/ Repair(BodyLens)
    \/ \E out \in BindResults : Bind(out)

SpecBody == InitBody /\ [][NextBody]_vars

\* One worker run over every modelled site whose chapter list is on the novel
\* page alone, chapter fetches ending in any body.
LoadedPageSites == {s \in Sites : s.pag # "href"}
InitWorker == OrchQuiet /\ WorkInit(LoadedPageSites) /\ ProgOff
SpecWorker == InitWorker /\ [][NextBody]_vars

\* The startup of a process whose data directory was left by earlier runs: any
\* completed and skipped jobs on file, any queue file; no upload follows.
InitResume ==
    /\ up = FALSE
    /\ processed = {} /\ errors = {} /\ nullcon = {} /\ genfail = {}
    /\ fProcessed \in SUBSET Urls
    /\ fNullcon \in SUBSET (Urls \ fProcessed)
    /\ fGenfail \in SUBSET (Urls \ (fProcessed \cup fNullcon))
    /\ fErrors = {}
    /\ fQueue \in {NoFile} \cup {QueueFile(b) : b \in Batches}
    /\ epubs = {}
    /\ userbot = FALSE /\ target = FALSE
    /\ task = [t \in Tasks |-> IdleTask]
    /\ kills = 0 /\ uploads = 0 /\ killedInFlight = {}
    /\ NoteOff
    /\ WorkOff
    /\ ProgOff

NextResume ==
    \/ PostInit
    \/ \E t \in Tasks : TaskStep(t)

SpecResume == InitResume /\ [][NextResume]_vars

----
(***************************************************************************)
(* The messages of one process_novel call: the status message, the         *)
(* "Uploading via Userbot" message, the document, and the report of the    *)
(* outcome. A message is sent when the log group and topic are set, and a  *)
(* live message can be edited. The delete and send_document calls return   *)
(* or raise.                                                               *)
(***************************************************************************)

\* A send_log call: how the text is sent (a new message, or the edit of
\* status_msg or prog_msg) and which text it is.
Req(how, text) == [how |-> how, text |-> text]
NoReq == Req("none", "none")

\* send_log(bot, text, edit_msg): whether the text reaches the log topic.
\* Without edit_msg, or with edit_msg None, a new message is sent; the edit
\* of a deleted message raises, and send_log swallows the error.
Delivered(req, ok, st, pr) ==
    LET m == IF req.how = "edit_status" THEN st
             ELSE IF req.how = "edit_prog" THEN pr ELSE "none"
    IN ok /\ req.how # "none" /\ m # "deleted"

\* The text that reports an outcome of the worker other than a file.
FailText(r) ==
    IF r = "nofile" THEN "Gen Failed"
    ELSE IF r = "nullerr" THEN "Null Content" ELSE "Error"

\* process_novel is entered for one url, with any configuration.
InitNote ==
    /\ up = TRUE
    /\ processed = {} /\ errors = {} /\ nullcon = {} /\ genfail = {}
    /\ fProcessed = {} /\ fErrors = {} /\ fNullcon = {} /\ fGenfail = {}
    /\ fQueue = NoFile
    /\ epubs = {}
    /\ userbot \in BOOLEAN /\ target \in BOOLEAN
    /\ task = [t \in Tasks |-> IdleTask]
    /\ kills = 0 /\ uploads = 0 /\ killedInFlight = {}
    /\ WorkOff
    /\ ProgOff
    /\ npc = "pnlog"
    /\ logOk \in BOOLEAN
    /\ statusMsg = "none"
    /\ progMsg = "none"
    /\ logReq = Req("new", "Processing")
    /\ notes = <<>>

\* status_msg = await self.send_log(bot, "Processing: url")
NoteStatusSent ==
    /\ npc = "pnlog"
    /\ statusMsg' = IF Delivered(logReq, logOk, statusMsg, progMsg) THEN "live" ELSE "none"
    /\ logReq' = NoReq
    /\ npc' = "poll"
    /\ UNCHANGED <<coreVars, workVars, progVars, logOk, progMsg, notes>>

\* The future is done: a file goes on to the delivery; no file and every
\* exception end in a send_log that edits the status message.
NoteWorkerDone(r) ==
    /\ npc = "poll"
    /\ IF r = "file"
       THEN npc' = "statusdel" /\ logReq' = NoReq
       ELSE npc' = "faillog" /\ logReq' = Req("edit_status", FailText(r))
    /\ UNCHANGED <<coreVars, workVars, progVars, logOk, statusMsg, progMsg, notes>>

\* status_msg.delete() returns (del) or raises, as it does when status_msg is
\* None; then the routing of an artifact of sz bytes up to the next await.
NoteRoute(sz, del) ==
    /\ npc = "statusdel"
    /\ statusMsg' = IF statusMsg = "live" /\ del THEN "deleted" ELSE statusMsg
    /\ LET r == RouteOf(sz, userbot, target)
       IN CASE r = "config" ->
                 npc' = "conflog" /\ logReq' = Req("new", "Configuration Error")
            [] r = "relay" ->
                 npc' = "relaylog" /\ logReq' = Req("new", "Uploading via Userbot")
            [] r = "toobig" ->
                 npc' = "toobiglog" /\ logReq' = Req("new", "File exceeds 50MB limit")
            [] OTHER ->
                 npc' = "primary" /\ logReq' = NoReq
    /\ UNCHANGED <<coreVars, workVars, progVars, logOk, progMsg, notes>>

\* prog_msg = await self.send_log(bot, "Uploading via Userbot...")
NoteProgSent ==
    /\ npc = "relaylog"
    /\ progMsg' = IF Delivered(logReq, logOk, statusMsg, progMsg) THEN "live" ELSE "none"
    /\ logReq' = NoReq
    /\ npc' = "relay"
    /\ UNCHANGED <<coreVars, workVars, progVars, logOk, statusMsg, notes>>

\* userbot.send_document returns (the document is in the target topic) or raises.
NoteRelaySent(ok) ==
    /\ npc = "relay"
    /\ IF ok
       THEN /\ notes' = Append(notes, "document")
            /\ npc' = "progdel"
            /\ logReq' = NoReq
       ELSE /\ notes' = notes
            /\ npc' = "relayfaillog"
            /\ logReq' = Req("edit_prog", "Userbot Upload Failed")
    /\ UNCHANGED <<coreVars, workVars, progVars, logOk, statusMsg, progMsg>>

\* prog_msg.delete() returns (del) or raises, as it does when prog_msg is None.
NoteProgDeleted(del) ==
    /\ npc = "progdel"
    /\ IF progMsg = "live" /\ del
       THEN /\ progMsg' = "deleted"
            /\ npc' = "returned"
            /\ logReq' = NoReq
       ELSE /\ progMsg' = progMsg
            /\ npc' = "relayfaillog"
            /\ logReq' = Req("edit_prog", "Userbot Upload Failed")
    /\ UNCHANGED <<coreVars, workVars, progVars, logOk, statusMsg, notes>>

\* bot.send_document returns (the document is in the target topic) or raises
\* into the except branch, whose send_log edits the status message.
NotePrimarySent(ok) ==
    /\ npc = "primary"
    /\ IF ok
       THEN /\ notes' = Append(notes, "document")
            /\ npc' = "returned"
            /\ logReq' = NoReq
       ELSE /\ notes' = notes
            /\ npc' = "faillog"
            /\ logReq' = Req("edit_status", "Error")
    /\ UNCHANGED <<coreVars, workVars, progVars, logOk, statusMsg, progMsg>>

\* The send_log that reports a failure returns, and process_novel returns.
NoteLogReturned ==
    /\ npc \in {"faillog", "conflog", "toobiglog", "relayfaillog"}
    /\ notes' = IF Delivered(logReq, logOk, statusMsg, progMsg)
                THEN Append(notes, logReq.text) ELSE notes
    /\ logReq' = NoReq
    /\ npc' = "returned"
    /\ UNCHANGED <<coreVars, workVars, progVars, logOk, statusMsg, progMsg>>

NextNote ==
    \/ NoteStatusSent
    \/ \E r \in WorkerResults : NoteWorkerDone(r)
    \/ \E sz \in Sizes, del \in BOOLEAN : NoteRoute(sz, del)
    \/ NoteProgSent
    \/ \E ok \in BOOLEAN : NoteRelaySent(ok)
    \/ \E del \in BOOLEAN : NoteProgDeleted(del)
    \/ \E ok \in BOOLEAN : NotePrimarySent(ok)
    \/ NoteLogReturned

SpecNote == InitNote /\ [][NextNote]_vars

----
(***************************************************************************)
(* The progress events of one process_novel call: the worker process puts  *)
(* texts on progress_queue, the supervising loop of process_novel reads    *)
(* one text per iteration until the future is done.                        *)
(***************************************************************************)

\* A progress text: a phase checkpoint ("info", "dl", "fix", "bind") or the
\* k-th percentage update ("pct").
Ev(kind, k) == [kind |-> kind, k |-> k]
NoEvent == Ev("none", 0)
Checkpoints == {Ev(kind, 0) : kind \in {"info", "dl", "fix", "bind"}}

\* Sleeps of 0.5 s after which time.time() - last_update exceeds 5 s.
ThrottleSleeps == THROTTLE_S * SLEEPS_PER_S

\* The texts scrape_logic_worker can put next: "Fetching info", "Downloading",
\* a percentage for chapter 0 and for every 50th chapter, "Fixing" when
\* chapters are degraded, "Binding".
NextEvents(em) ==
    IF em = <<>> THEN {Ev("info", 0)}
    ELSE LET last == em[Len(em)]
         IN CASE last.kind = "info" -> {Ev("dl", 0)}
              [] last.kind = "dl" -> {Ev("pct", 1)}
              [] last.kind = "pct" ->
                    (IF last.k < MaxPct THEN {Ev("pct", last.k + 1)} ELSE {})
                        \cup {Ev("fix", 0), Ev("bind", 0)}
              [] last.kind = "fix" -> {Ev("bind", 0)}
              [] OTHER -> {}

\* process_novel has submitted the worker and enters the loop: last_text = "",
\* last_update = 0.
InitProg ==
    /\ OrchQuiet
    /\ WorkOff
    /\ lpc = "loop"
    /\ emitted = <<>>
    /\ pq = <<>>
    /\ fdone = FALSE
    /\ lastText = NoEvent
    /\ since = ThrottleSleeps
    /\ forwarded = {}

\* progress_queue.put(text) in the worker process.
WorkerEmit(e) ==
    /\ ~fdone
    /\ e \in NextEvents(emitted)
    /\ emitted' = Append(emitted, e)
    /\ pq' = Append(pq, e)
    /\ UNCHANGED <<coreVars, workVars, noteVars, lpc, fdone, lastText, since, forwarded>>

\* The worker returns or raises: the future is done.
WorkerEnd ==
    /\ ~fdone
    /\ fdone' = TRUE
    /\ UNCHANGED <<coreVars, workVars, noteVars, lpc, emitted, pq, lastText, since,
                   forwarded>>

\* The loop iteration without the time test: every text that differs from
\* last_text is forwarded.
LoopIter_Mutant ==
    /\ lpc = "loop"
    /\ ~fdone
    /\ IF pq # <<>> /\ Head(pq) # lastText
       THEN /\ forwarded' = forwarded \cup {Head(pq)}
            /\ lastText' = Head(pq)
            /\ since' = 1
       ELSE /\ UNCHANGED <<forwarded, lastText>>
            /\ since' = IF since < ThrottleSleeps THEN since + 1 ELSE since
    /\ pq' = IF pq = <<>> THEN pq ELSE Tail(pq)
    /\ UNCHANGED <<coreVars, workVars, noteVars, lpc, emitted, fdone>>

\* One iteration of "while not future.done()": get_nowait, the forward of a
\* text that differs from last_text more than 5 s after last_update, the sleep.
LoopIter ==
    /\ lpc = "loop"
    /\ ~fdone
    /\ IF pq # <<>> /\ Head(pq) # lastText /\ since >= ThrottleSleeps
       THEN /\ forwarded' = forwarded \cup {Head(pq)}
            /\ lastText' = Head(pq)
            /\ since' = 1
       ELSE /\ UNCHANGED <<forwarded, lastText>>
            /\ since' = IF since < ThrottleSleeps THEN since + 1 ELSE since
    /\ pq' = IF pq = <<>> THEN pq ELSE Tail(pq)
    /\ UNCHANGED <<coreVars, workVars, noteVars, lpc, emitted, fdone>>

\* The loop test finds the future done: the texts still queued are not read.
LoopExit ==
    /\ lpc = "loop"
    /\ fdone
    /\ lpc' = "exited"
    /\ UNCHANGED <<coreVars, workVars, noteVars, emitted, pq, fdone, lastText, since,
                   forwarded>>

NextProg ==
    \/ \E e \in Checkpoints \cup {Ev("pct", k) : k \in 1..MaxPct} : WorkerEmit(e)
    \/ WorkerEnd
    \/ LoopIter
    \/ LoopExit

SpecProg == InitProg /\ [][NextProg]_vars

----
(***************************************************************************)
(* Claims                                                                  *)
(***************************************************************************)

\* The urls the persisted queue file lists.
QueuedUrls == IF fQueue = NoFile THEN {} ELSE Range(fQueue[1])

\* The step hands task t's current url to the worker pool.
Dispatches(t) == task[t].pc = "pnlog" /\ task'[t].pc = "poll"

\* C1: once a job id is in the processed set, no step adds it to the persisted
\* queue and no step dispatches it to a worker.
C1_Dedupe ==
    [][\A j \in processed :
          /\ j \in QueuedUrls' => j \in QueuedUrls
          /\ \A t \in Tasks : ~(Dispatches(t) /\ Cur(t) = j)]_vars

\* C2: for every job id at most one attempt (worker run and delivery) is in flight.
C2_AtMostOneActive ==
    \A u \in Urls : Cardinality({t \in Tasks : InFlight(t, u)}) <= 1

\* C3: a job that was in flight, and not yet in a terminal set, when the process
\* was killed is among the jobs the restart resumes.
C3_ResumeRetries ==
    [][(~up /\ up') => killedInFlight \subseteq Range(task'["resume"].todo)]_vars

\* Number of worker runs in the pool.
Running == Cardinality({t \in Tasks : task[t].pc = "poll"})

\* C5: with two worker slots, while the first job of a batch runs in the pool
\* and a slot is free, the second job of the batch runs as well.
C5_TwoJobsStartTogether ==
    \A t \in Tasks :
        (/\ task[t].pc = "poll"
         /\ task[t].i = 1
         /\ Len(task[t].todo) >= 2
         /\ task[t].todo[2] # task[t].todo[1]
         /\ Running < PoolSize)
        => \E t2 \in Tasks : task[t2].pc = "poll" /\ Cur(t2) = task[t].todo[2]

\* The step ends the delivery part of task t's process_novel call.
LeavesDelivery(t) == up' /\ task[t].pc \in DeliveryPcs /\ task'[t].pc \notin DeliveryPcs

\* C9: when process_novel leaves the delivery of an artifact whose send_document
\* call succeeded (primary channel or relay), the artifact file is gone and the
\* job id is in the processed set.
C9_DeliveredIsCompleted ==
    [][\A t \in Tasks :
          (\/ LeavesDelivery(t) /\ task[t].pc \in {"progdel", "sentfaillog"}
           \/ PrimarySent(t, TRUE))
          => Cur(t) \in processed' /\ Cur(t) \notin epubs']_vars

\* C10: when process_novel leaves the delivery of a bound artifact, on any path,
\* the artifact file is gone.
C10_ArtifactRemoved ==
    [][\A t \in Tasks : LeavesDelivery(t) => Cur(t) \notin epubs']_vars

\* The step takes task t from the routing decision into a delivery branch.
Routed(t) == up' /\ task[t].pc = "statusdel" /\ task'[t].pc # "statusdel"

HasChapterList == wpc \in {"download", "check", "bind"} \cup BindResults

\* C7: the chapter list that the worker downloads and binds has strictly
\* increasing chapter ids, hence it is sorted by id and no id occurs twice,
\* in whatever order the TOC pages were handed over.
C7_ChapterOrdering ==
    HasChapterList =>
        \A k \in 1..(Len(chapters) - 1) : chapters[k].id < chapters[k + 1].id

\* The bind step holds three chapters or more, and a chapter of a later TOC
\* page was parsed before a chapter of an earlier one.
C7_Witness ==
    /\ wpc = "bind"
    /\ Len(chapters) >= 3
    /\ \E k \in 1..(Len(chapters) - 1) :
          /\ chapters[k + 1].src[1] # MainPage
          /\ chapters[k].src[1] > chapters[k + 1].src[1]

\* C8: after the main fetch pass the worker makes at most one repair call, on
\* exactly the degraded chapters, and goes on to the bind step with the same
\* chapters, none of them degraded: each one has a fetched body or the
\* placeholder body. This holds also when every chapter is degraded.
C8_RepairBound ==
    [][wpc = "check" =>
          /\ wpc' = "bind"
          /\ repairs' <= 1
          /\ repairs' = IF Failed(chapters) = {} THEN 0 ELSE 1
          /\ Failed(chapters) # {} => repaired' = {chapters[k].id : k \in Failed(chapters)}
          /\ Len(chapters') = Len(chapters)
          /\ \A k \in 1..Len(chapters) :
                /\ chapters'[k].id = chapters[k].id
                /\ ~Degraded(chapters'[k])
                /\ k \notin Failed(chapters) => chapters'[k].body = chapters[k].body
                /\ chapters'[k].body # PlaceholderLen(chapters[k].id)
                      => chapters'[k].body \in BodyLens]_vars

\* The bind step is reached after one repair call on all the chapters of a job
\* of two chapters or more, and every chapter holds the placeholder body.
C8_Witness ==
    /\ wpc = "bind"
    /\ Len(chapters) >= 2
    /\ repairs = 1
    /\ repaired = {chapters[k].id : k \in 1..Len(chapters)}
    /\ \A k \in 1..Len(chapters) : chapters[k].body = PlaceholderLen(chapters[k].id)

\* C11: when the log group and topic are set, every process_novel call that
\* returns has delivered exactly one message that reports the outcome of the
\* job (the document on success, the error text on failure).
C11_OneNotification ==
    (npc = "returned" /\ logOk) => Len(notes) = 1

\* The step is process_novel taking the exception that task t's worker raised.
WorkerRaised(t) ==
    /\ up'
    /\ task[t].pc = "done"
    /\ task[t].res \in {"nullerr", "othererr"}
    /\ task'[t].pc # "done"

\* C12: when the worker of a job raises, process_novel records the job in one
\* of the persisted failure records and goes on to its final log, from which
\* process_queue continues with the next job.
C12_FailureRecorded ==
    [][\A t \in Tasks :
          WorkerRaised(t) =>
             /\ Cur(t) \in (fNullcon' \cup fGenfail' \cup fErrors')
             /\ task'[t].pc = "novellog"]_vars

\* The step ends a delivery attempt of task t that failed: the size limit log
\* or the relay failure log returns, or bot.send_document raises.
DeliveryFailed(t) ==
    \/ /\ up'
       /\ task[t].pc \in {"toobiglog", "relayfaillog"}
       /\ task'[t].pc \notin {"toobiglog", "relayfaillog"}
    \/ PrimarySent(t, FALSE)

\* C13: when a delivery attempt fails (size limit with no relay, relay upload
\* failure, primary channel rejection) the job is recorded in the errors
\* record, in memory and in the errors file.
C13_DeliveryErrorRecorded ==
    [][\A t \in Tasks :
          DeliveryFailed(t) => Cur(t) \in errors' /\ Cur(t) \in fErrors']_vars

\* C14: while the process runs, between the steps of the handlers, every
\* persisted record file holds what the record holds in memory.
C14_FilesEqualMemory ==
    up => /\ fProcessed = processed
          /\ fErrors = errors
          /\ fNullcon = nullcon
          /\ fGenfail = genfail

\* C15: a task that waits for the relay's confirmation leaves the wait, even
\* if the confirmation never arrives.
C15_RelayWaitBounded ==
    \A t \in Tasks : (task[t].pc = "relay") ~> (task[t].pc # "relay")

\* The step is the supervising loop reading a text from progress_queue.
Reads == lpc = "loop" /\ pq # <<>> /\ pq' = Tail(pq)

\* C16: when the supervising loop has ended, every phase checkpoint the worker
\* emitted has been forwarded to the progress sink.
C16_CheckpointsForwarded ==
    lpc = "exited" =>
        \A n \in 1..Len(emitted) : emitted[n] \in Checkpoints => emitted[n] \in forwarded

\* C17: progress_queue never holds more than one unread event, and the event
\* the supervising loop reads is the most recent one emitted.
C17_Coalescing ==
    [][/\ Len(pq') <= 1
       /\ Reads => Head(pq) = emitted[Len(emitted)]]_vars

\* The entries of an uploaded list that are neither completed nor pending.
NewEntries(b) == {k \in 1..Len(b) : b[k] \notin (processed \cup QueuedUrls)}

\* C18: the count that the upload handler reports for an accepted list is the
\* number of its entries that are neither completed nor already pending.
C18_IntakeCount ==
    [][uploads' = uploads + 1 =>
          ReplyCount(fQueue'[1]) = Cardinality(NewEntries(fQueue'[1]))]_vars

\* The positions of a persisted queue list whose job is not on file as completed,
\* as without content or as failed by the site.
Kept(urls) ==
    {k \in 1..Len(urls) : urls[k] \notin (fProcessed \cup fNullcon \cup fGenfail)}

\* C19: at startup the jobs handed to the resumed batch are exactly the entries
\* of the persisted queue that are in no completed or skip set, in their
\* persisted order; if none is left and the persisted list has entries, the
\* queue file is removed and no batch is started.
C19_ResumeReconciliation ==
    [][(~up /\ up' /\ fQueue # NoFile) =>
          LET urls == fQueue[1]
              kept == Kept(urls)
              todo == task'["resume"].todo
          IN /\ task'["upload"] = IdleTask
             /\ IF kept # {}
                THEN /\ task'["resume"].pc = "start"
                     /\ Len(todo) = Cardinality(kept)
                     /\ \A n \in 1..Len(todo) :
                           \E k \in kept :
                              /\ Cardinality({j \in kept : j <= k}) = n
                              /\ todo[n] = urls[k]
                     /\ fQueue' = fQueue
                ELSE /\ task'["resume"] = IdleTask
                     /\ urls # <<>> => fQueue' = NoFile]_vars

\* A restarted process resumes a batch that is a proper part of the persisted
\* list, another part of it being on file as failed by the site.
C19_Witness ==
    /\ up
    /\ fQueue # NoFile
    /\ task["resume"].pc = "start"
    /\ Len(task["resume"].todo) < Len(fQueue[1])
    /\ Len(task["resume"].todo) >= 1
    /\ fGenfail # {}

\* The task is inside the loop of its batch, between two jobs or within one.
InBatch(tk) == tk.pc \notin {"idle", "start", "finlog"}

\* The positions of a submitted list that process_queue keeps for its batch.
Taken(urls) ==
    {k \in 1..Len(urls) : urls[k] \notin (processed \cup nullcon \cup genfail)}

\* C20: within a batch the jobs are dispatched in the order of the submitted
\* list. The batch keeps the submitted ids that are not skipped in their
\* order; the list and the position are fixed while a job runs; each job
\* handed to the pool stands behind the one handed over before it, and every
\* position passed over in between holds an id that is completed by then.
C20_DispatchOrder ==
    [][\A t \in Tasks :
          /\ (task[t].pc = "start" /\ InBatch(task'[t])) =>
                LET urls == task[t].todo
                    todo == task'[t].todo
                IN /\ task'[t].i = 0
                   /\ Len(todo) = Cardinality(Taken(urls))
                   /\ \A n \in 1..Len(todo) :
                         \E k \in Taken(urls) :
                            /\ Cardinality({j \in Taken(urls) : j <= k}) = n
                            /\ todo[n] = urls[k]
          /\ (InBatch(task[t]) /\ InBatch(task'[t])) =>
                /\ task'[t].todo = task[t].todo
                /\ task'[t].i >= task[t].i
          /\ Dispatches(t) =>
                /\ task'[t].i = task[t].i
                /\ task[t].i \in 1..Len(task[t].todo)
          /\ (InBatch(task[t]) /\ task[t].pc # "pnlog" /\ task'[t].pc = "pnlog") =>
                /\ task'[t].i > task[t].i
                /\ \A j \in (task[t].i + 1)..(task'[t].i - 1) :
                      task[t].todo[j] \in processed']_vars

\* The second job of a batch of two different ids is about to be handed to the
\* pool after the first one failed.
C20_Witness ==
    \E t \in Tasks :
        /\ task[t].pc = "pnlog"
        /\ task[t].i = 2
        /\ Len(task[t].todo) = 2
        /\ task[t].todo[1] # task[t].todo[2]
        /\ task[t].todo[1] \notin processed

\* The page says in so many words that the novel has no chapter: the read
\* button, header stats reading "No Chapters" or "0 Chapters", or the text "no
\* chapter" in the page source.
HasNoChapterMarker(s) == s.button \/ s.stats \in {NoChaptersText, 0} \/ s.marker

\* C21: a worker run that ends with zero chapters ends as a zero-chapter job
\* (null content) exactly when the page carries an explicit no-chapter marker,
\* and as a parse failure exactly when it carries none; the two ends are
\* classified differently.
C21_EmptyToc ==
    /\ wpc = "raised_nochapters" => HasNoChapterMarker(site)
    /\ wpc = "raised_parse" => ~HasNoChapterMarker(site)
    /\ Outcome("raised_nochapters") # Outcome("raised_parse")

\* The step is read_novel_info reaching its pagination block.
ReachesPagination == wpc = "start" /\ site.meta = "ok" /\ ~IsZeroChapter(site)

\* The novel page was parsed and no TOC page fetch was issued.
ParsedLoadedPage ==
    /\ pending' = {}
    /\ wpc' = "sort"
    /\ Len(crawled') = site.main
    /\ \A k \in 1..Len(crawled') : crawled'[k].src[1] = MainPage

\* C22 as stated: a pagination link whose page parameter is absent, empty or
\* not a decimal number gives one page fetch, the number n gives the n + 1
\* fetches of pages 0..n, and without a pagination link no fetch is issued.
C22_AsStated ==
    [][ReachesPagination =>
          /\ (site.pag = "href" /\ site.param.kind # "digits") =>
                (pending' = {0} /\ wpc' = "toc")
          /\ (site.pag = "href" /\ site.param.kind = "digits") =>
                (pending' = 0..site.param.n /\ wpc' = "toc")
          /\ site.pag = "none" => ParsedLoadedPage]_vars

\* C22: for a pagination link with a href, a page parameter that is absent,
\* empty or holds a character that is not a digit gives one page fetch (page
\* 0), and the decimal number n gives the n + 1 fetches of pages 0..n; a
\* parameter of digit characters that is no decimal number, a link without
\* href and a page without pagination link give no fetch: the loaded page is
\* parsed.
C22_TocPageCount ==
    [][ReachesPagination =>
          /\ (site.pag = "href" /\ site.param.kind \in {"absent", "empty", "malformed"}) =>
                (pending' = {0} /\ wpc' = "toc")
          /\ (site.pag = "href" /\ site.param.kind = "digits") =>
                (pending' = 0..site.param.n /\ wpc' = "toc")
          /\ (site.pag = "href" /\ site.param.kind = "nonint") => ParsedLoadedPage
          /\ site.pag \in {"none", "nohref"} => ParsedLoadedPage]_vars

\* The two fetches of a TOC whose last pagination link has page=1 are issued.
C22_Witness ==
    /\ wpc = "toc"
    /\ site.pag = "href"
    /\ site.param = [kind |-> "digits", n |-> 1]
    /\ pending = {0, 1}

\* C23: when a job is bound with k > 0 placeholder chapters, the caption of
\* the delivered document states the count k.
C23_PlaceholderCount ==
    (wpc = "returned_file" /\ Placeholders(chapters) # {}) =>
        \A sz \in Sizes :
            LET cap == Caption(WorkerReturn(wpc, chapters), sz, 0)
            IN /\ "placeholders" \in DOMAIN cap
               /\ cap["placeholders"] = Cardinality(Placeholders(chapters))

\* The ends of a worker run whose metadata phase failed.
MetaRaised == {"raised_fetch", "raised_block", "raised_title"}

\* The worker half of C24, which holds of every site: when the metadata fetch
\* fails, the host blocks the request or the page has no title, the worker run
\* ends there with an error; no TOC page is fetched, no chapter is listed or
\* downloaded, no repair call is made, nothing is bound, and the run takes no
\* further step.
MetadataEndsRun ==
    [][(/\ (wpc = "start" /\ site.meta # "ok") =>
              /\ wpc' \in MetaRaised
              /\ pending' = {} /\ crawled' = <<>> /\ chapters' = <<>>
              /\ repairs' = 0 /\ repaired' = {}
              /\ Outcome(wpc') = "othererr"
        /\ wpc \in MetaRaised => (site.meta # "ok" /\ UNCHANGED workVars)
        /\ wpc' \in MetaRaised => wpc \in MetaRaised \cup {"start"})]_vars

\* The step is process_novel taking the error of a worker run of task t whose
\* metadata phase failed.
MetadataFailed(t) ==
    /\ up'
    /\ task[t].pc = "done"
    /\ task[t].res \in {Outcome(w) : w \in MetaRaised}
    /\ task'[t].pc # "done"

\* C24: a job whose metadata phase failed ends failed: when process_novel has
\* taken the worker's error, the job is in a failure record.
C24_MetadataTerminal ==
    [][\A t \in Tasks :
          MetadataFailed(t) => Cur(t) \in (nullcon' \cup genfail' \cup errors')]_vars

PendingJobs(t) ==
    LET tk == task[t]
    IN CASE tk.pc \in {"idle", "finlog"} -> {}
         [] tk.pc = "start" -> Range(tk.todo) \ (processed \cup nullcon \cup genfail)
         [] tk.pc = "batchlog" -> Range(tk.todo) \ processed
         [] tk.pc = "novellog" ->
               {tk.todo[j] : j \in (tk.i + 1)..Len(tk.todo)} \ processed
         [] OTHER -> {tk.todo[j] : j \in tk.i..Len(tk.todo)} \ processed

\* C26: while the process runs, the queue file exists and lists every accepted
\* job that has not reached a terminal state, also when the resume task and an
\* uploaded batch run at the same time and one of them finishes first.
C26_QueueNotLost ==
    up => \A t \in Tasks : PendingJobs(t) \subseteq QueuedUrls

\* C27: no job id is in the processed set and in a failure record (nullcon,
\* genfail, errors) at the same time.
C27_StatusDisjoint ==
    processed \cap (nullcon \cup genfail \cup errors) = {}

\* The worker is at the bind step or past it.
AtBind == wpc \in {"bind"} \cup BindResults

\* Chapter discovery is over and has found no chapter.
NoneDiscovered ==
    /\ site.meta = "ok"
    /\ wpc \notin {"start", "toc", "sort", "loaded"}
    /\ crawled = <<>>

\* Every chapter has a body of at least 20 characters.
BodiesComplete ==
    \A k \in 1..Len(chapters) :
        chapters[k].body # NoBody /\ chapters[k].body >= MIN_BODY

\* C28 as stated: at the bind step the chapter list is not empty and every
\* body has at least 20 characters; a job with no discovered chapter does not
\* reach the bind step and ends with the no-chapters error.
C28_AsStated ==
    /\ AtBind => (chapters # <<>> /\ BodiesComplete)
    /\ NoneDiscovered => wpc = "raised_nochapters"

\* C28: at the bind step the chapter list is not empty and every body has at
\* least 20 characters, a fetched body or the placeholder; a job with no
\* discovered chapter does not reach the bind step: it ends with the
\* no-chapters error when the page matches a zero-chapter check or holds the
\* text "no chapter", and with the parse error of read_novel_info otherwise.
C28_BindPrecondition ==
    /\ AtBind => (chapters # <<>> /\ BodiesComplete)
    /\ NoneDiscovered =>
          wpc = IF IsZeroChapter(site) \/ site.marker
                THEN "raised_nochapters" ELSE "raised_parse"

\* The bind step holds a fetched body next to a placeholder body.
C28_Witness ==
    /\ wpc = "bind"
    /\ \E k \in 1..Len(chapters) : chapters[k].body = PlaceholderLen(chapters[k].id)
    /\ \E k \in 1..Len(chapters) : chapters[k].body \in BodyLens

\* The events the supervising loop has read and not forwarded.
Discarded == {e \in Range(emitted) : e \notin Range(pq) /\ e \notin forwarded}

\* C29: the supervising loop forwards a text only when it reads it, the text
\* differs from the text forwarded last, and at least ten sleeps of 0.5 s have
\* passed since the last forward returned (or nothing was forwarded yet); an
\* event read at another time is dropped and is not forwarded at any later
\* step.
C29_Throttle ==
    [][(/\ forwarded' # forwarded =>
              /\ Reads
              /\ forwarded' = forwarded \cup {Head(pq)}
              /\ Head(pq) # lastText
              /\ lastText' = Head(pq)
              /\ since >= THROTTLE_S * SLEEPS_PER_S
              /\ since' < THROTTLE_S * SLEEPS_PER_S
        /\ (Reads /\ since < THROTTLE_S * SLEEPS_PER_S) => Head(pq) \in Discarded'
        /\ Discarded \subseteq Discarded')]_vars

\* Two texts were forwarded and a text read in between was dropped.
C29_Witness ==
    /\ Cardinality(forwarded) >= 2
    /\ Discarded # {}

\* The step is process_novel taking the end of task t's worker run.
Collects(t) == up' /\ task[t].pc = "done" /\ task'[t].pc # "done"

\* C30: a worker error of the null-content kind puts the job in nullcon, a
\* run that leaves no file puts it in genfail, any other error leaves both
\* records as they are; and no job that is in nullcon or genfail is handed to
\* the worker pool.
C30_ClassifyAndSkip ==
    [][\A t \in Tasks :
          /\ Collects(t) =>
                /\ task[t].res = "nullerr" => Cur(t) \in nullcon'
                /\ (task[t].res = "nofile" \/ (task[t].res = "file" /\ Cur(t) \notin epubs))
                      => Cur(t) \in genfail'
                /\ task[t].res = "othererr" => (nullcon' = nullcon /\ genfail' = genfail)
          /\ Dispatches(t) => Cur(t) \notin (nullcon \cup genfail)]_vars

====
